---- MODULE Spec2Model ----
(***************************************************************************)
(* The eco-friendly lifestyle bot (src/main.py): an in-memory ledger of    *)
(* points and daily history entries, mirrored to eco_data.json by a        *)
(* write-to-temp-then-rename save that runs inside every mutating handler. *)
(*                                                                         *)
(* Python dicts are modelled as sequences of <<key, value>> pairs with     *)
(* unique keys, in insertion order.  File contents are sequences of JSON   *)
(* tokens; a partially written file is a proper prefix of such a sequence. *)
(* Handlers are coroutines on one event loop: a handler runs without       *)
(* interruption until it finishes, so the only things that can happen      *)
(* between two of its steps are the wall clock advancing and the process   *)
(* crashing.  SpecYield additionally lets a handler be suspended at its    *)
(* `await _save_data()`.                                                   *)
(***************************************************************************)
EXTENDS Integers, Sequences, FiniteSets, TLC

\* ------------------------------------------------------------------ bounds
MaxUsers   == 2   \* distinct usernames that requests may carry
MaxDay     == 2   \* calendar days the wall clock runs through
NProcs     == 2   \* requests that can be in flight at once
MaxEntries == 2   \* history entries the ledger holds in all
MaxFaults  == 1   \* failed saves and crashes in one behaviour
MaxBatch   == 2   \* longest payload of a batch registration

NameList  == <<"alice", "bob", "carol", "dave", "erin">>
UserNames == {NameList[i] : i \in 1..MaxUsers}
Procs     == 1..NProcs
Batches   == UNION {[1..n -> UserNames] : n \in 0..MaxBatch}

\* --------------------------------------------------------- program constants
DATA_FILE == "eco_data.json"
\* Mutant: the text is written straight into the data file.
TmpFile_InPlace == DATA_FILE

TmpFile   == "eco_data.tmp"
Paths     == {DATA_FILE, TmpFile}

POINTS == [recycled |-> 10, biked_or_walked |-> 15, saved_energy |-> 8]

\* ------------------------------------------------------------- Python dict
Keys(d) == {d[i][1] : i \in DOMAIN d}

DictHas(d, k) == \E i \in DOMAIN d : d[i][1] = k

DictGet(d, k, default) ==
    IF DictHas(d, k) THEN d[CHOOSE i \in DOMAIN d : d[i][1] = k][2] ELSE default

DictSet(d, k, v) ==
    IF DictHas(d, k)
    THEN [i \in DOMAIN d |-> IF d[i][1] = k THEN <<k, v>> ELSE d[i]]
    ELSE Append(d, <<k, v>>)

\* ----------------------------------------------------------- JSON encoding
\* A token is <<kind, string, number>>; separators and whitespace carry no
\* information and are left out.
LBrace    == <<"{", "", 0>>
RBrace    == <<"}", "", 0>>
LBracket  == <<"[", "", 0>>
RBracket  == <<"]", "", 0>>
StrTok(s) == <<"str", s, 0>>
IntTok(n) == <<"int", "", n>>
BoolTok(b) == IF b THEN <<"true", "", 0>> ELSE <<"false", "", 0>>

EntryLen == 12   \* tokens of one serialized history entry

DumpEntry(e) ==
    << LBrace,
       StrTok("date"), StrTok(e.date),
       StrTok("recycled"), BoolTok(e.recycled),
       StrTok("biked_or_walked"), BoolTok(e.biked_or_walked),
       StrTok("saved_energy"), BoolTok(e.saved_energy),
       StrTok("points_earned"), IntTok(e.points_earned),
       RBrace >>

RECURSIVE DumpEntries(_)
DumpEntries(h) ==
    IF h = <<>> THEN <<>> ELSE DumpEntry(Head(h)) \o DumpEntries(Tail(h))

RECURSIVE DumpPointItems(_)
DumpPointItems(d) ==
    IF d = <<>> THEN <<>>
    ELSE <<StrTok(Head(d)[1]), IntTok(Head(d)[2])>> \o DumpPointItems(Tail(d))

RECURSIVE DumpHistoryItems(_)
DumpHistoryItems(d) ==
    IF d = <<>> THEN <<>>
    ELSE <<StrTok(Head(d)[1]), LBracket>> \o DumpEntries(Head(d)[2])
             \o <<RBracket>> \o DumpHistoryItems(Tail(d))

\* json.dumps(payload): the two top-level fields, each a mapping in dict order.
json_dumps(payload) ==
    <<LBrace, StrTok("points"), LBrace>> \o DumpPointItems(payload.points)
      \o <<RBrace, StrTok("history"), LBrace>> \o DumpHistoryItems(payload.history)
      \o <<RBrace, RBrace>>

\* ----------------------------------------------------------- JSON decoding
\* json.loads on a token sequence.  The decoder covers the documents of the
\* persisted layout (an object whose members "points" and "history" are
\* mappings, in any order, either possibly missing); every other token
\* sequence, a truncated document in particular, is a decoding error.
ParseFail == [ok |-> FALSE, pos |-> 0, val |-> <<>>]

RECURSIVE ParsePointItems(_, _, _)
ParsePointItems(t, i, acc) ==
    IF i > Len(t) THEN ParseFail
    ELSE IF t[i] = RBrace THEN [ok |-> TRUE, pos |-> i + 1, val |-> acc]
    ELSE IF t[i][1] = "str" /\ i + 1 <= Len(t) /\ t[i + 1][1] = "int"
         THEN ParsePointItems(t, i + 2, DictSet(acc, t[i][2], t[i + 1][3]))
         ELSE ParseFail

EntryKeys == <<"date", "recycled", "biked_or_walked", "saved_energy", "points_earned">>

IsBoolTok(x) == x[1] \in {"true", "false"}

ParseEntry(t, i) ==
    IF i + EntryLen - 1 > Len(t) \/ t[i] # LBrace \/ t[i + EntryLen - 1] # RBrace
    THEN ParseFail
    ELSE LET key(j)   == t[i + 2 * j - 1]
             value(j) == t[i + 2 * j]
             has(k)   == \E j \in 1..5 : key(j) = StrTok(k)
             field(k) == value(CHOOSE j \in 1..5 : key(j) = StrTok(k))
         IN  IF /\ \A j \in 1..5 : has(EntryKeys[j])
                /\ field("date")[1] = "str"
                /\ IsBoolTok(field("recycled"))
                /\ IsBoolTok(field("biked_or_walked"))
                /\ IsBoolTok(field("saved_energy"))
                /\ field("points_earned")[1] = "int"
             THEN [ok  |-> TRUE,
                   pos |-> i + EntryLen,
                   val |-> [date            |-> field("date")[2],
                            recycled        |-> field("recycled")[1] = "true",
                            biked_or_walked |-> field("biked_or_walked")[1] = "true",
                            saved_energy    |-> field("saved_energy")[1] = "true",
                            points_earned   |-> field("points_earned")[3]]]
             ELSE ParseFail

RECURSIVE ParseEntries(_, _, _)
ParseEntries(t, i, acc) ==
    IF i > Len(t) THEN ParseFail
    ELSE IF t[i] = RBracket THEN [ok |-> TRUE, pos |-> i + 1, val |-> acc]
    ELSE LET e == ParseEntry(t, i)
         IN  IF e.ok THEN ParseEntries(t, e.pos, Append(acc, e.val)) ELSE ParseFail

RECURSIVE ParseHistoryItems(_, _, _)
ParseHistoryItems(t, i, acc) ==
    IF i > Len(t) THEN ParseFail
    ELSE IF t[i] = RBrace THEN [ok |-> TRUE, pos |-> i + 1, val |-> acc]
    ELSE IF t[i][1] = "str" /\ i + 1 <= Len(t) /\ t[i + 1] = LBracket
         THEN LET h == ParseEntries(t, i + 2, <<>>)
              IN  IF h.ok
                  THEN ParseHistoryItems(t, h.pos, DictSet(acc, t[i][2], h.val))
                  ELSE ParseFail
         ELSE ParseFail

\* The decoded top-level object: which of the two members it has, and their
\* values.
EmptyBlob == [has_points |-> FALSE, points |-> <<>>,
              has_history |-> FALSE, history |-> <<>>]

RECURSIVE ParseMembers(_, _, _)
ParseMembers(t, i, acc) ==
    IF i > Len(t) THEN ParseFail
    ELSE IF t[i] = RBrace
         THEN IF i = Len(t) THEN [ok |-> TRUE, pos |-> i + 1, val |-> acc]
              ELSE ParseFail
    ELSE IF i + 1 > Len(t) \/ t[i + 1] # LBrace THEN ParseFail
    ELSE IF t[i] = StrTok("points")
         THEN LET m == ParsePointItems(t, i + 2, <<>>)
              IN  IF m.ok
                  THEN ParseMembers(t, m.pos,
                         [acc EXCEPT !.has_points = TRUE, !.points = m.val])
                  ELSE ParseFail
    ELSE IF t[i] = StrTok("history")
         THEN LET m == ParseHistoryItems(t, i + 2, <<>>)
              IN  IF m.ok
                  THEN ParseMembers(t, m.pos,
                         [acc EXCEPT !.has_history = TRUE, !.history = m.val])
                  ELSE ParseFail
    ELSE ParseFail

json_loads(t) ==
    IF t = <<>> \/ t[1] # LBrace THEN ParseFail ELSE ParseMembers(t, 2, EmptyBlob)

\* --------------------------------------------------------------- the state
VARIABLES
    USER_POINTS,   \* dict username -> int
    USER_HISTORY,  \* dict username -> list of entries
    fs,            \* the two files: [exists, data]
    data_lock,     \* 0, or the request that holds the save lock
    running,       \* 0, or the request the event loop is executing
    pc,            \* where each request in flight is in its handler
    req,           \* the request each handler in flight was called with
    locals,        \* its local variables day, points, created
    resp,          \* the response it has produced, until it is sent
    clock,         \* the wall clock, in days
    nfail,         \* failed saves so far
    ncrash,        \* crashes so far
    regOrder,      \* history variable: usernames in the order they registered
    origin,        \* history variable: the ledger the data file was renamed from
    acked          \* history variable: per user, the entries log_choice returned
                   \* with success

vars == <<USER_POINTS, USER_HISTORY, fs, data_lock, running, pc, req, locals,
          resp, clock, nfail, ncrash, regOrder, origin, acked>>

Absent      == [exists |-> FALSE, data |-> <<>>]
EmptyLedger == [points |-> <<>>, history |-> <<>>]
Ledger      == [points |-> USER_POINTS, history |-> USER_HISTORY]

NoReq == [op |-> "", username |-> "", users |-> <<>>, top |-> 0,
          recycled |-> FALSE, biked_or_walked |-> FALSE, saved_energy |-> FALSE]
NoResp == [status |-> 0, message |-> "", username |-> "", usernames |-> <<>>,
           points_earned |-> 0, total_points |-> 0, date |-> "",
           leaderboard |-> <<>>, history |-> <<>>]
NoLocals == [day |-> "", points |-> 0, created |-> <<>>]

\* Module import: empty dicts, then _load_data() with no data file yet.
Init ==
    /\ USER_POINTS = <<>>
    /\ USER_HISTORY = <<>>
    /\ fs = [f \in Paths |-> Absent]
    /\ data_lock = 0
    /\ running = 0
    /\ pc = [p \in Procs |-> "idle"]
    /\ req = [p \in Procs |-> NoReq]
    /\ locals = [p \in Procs |-> NoLocals]
    /\ resp = [p \in Procs |-> NoResp]
    /\ clock = 1
    /\ nfail = 0
    /\ ncrash = 0
    /\ regOrder = <<>>
    /\ origin = EmptyLedger
    /\ acked = [u \in UserNames |-> <<>>]

\* ------------------------------------------------------------------ helpers
\* datetime.now().strftime("%d-%m-%Y"); the clock counts the days of one month.
today_str ==
    (IF clock < 10 THEN "0" ELSE "") \o ToString(clock) \o "-01-2026"

\* Mutant: `elif` in place of the second and third `if`.
calculate_points_Elif(choice) ==
    IF choice.recycled THEN POINTS.recycled
    ELSE IF choice.biked_or_walked THEN POINTS.biked_or_walked
    ELSE IF choice.saved_energy THEN POINTS.saved_energy
    ELSE 0

calculate_points(choice) ==
    (IF choice.recycled THEN POINTS.recycled ELSE 0)
      + (IF choice.biked_or_walked THEN POINTS.biked_or_walked ELSE 0)
      + (IF choice.saved_energy THEN POINTS.saved_energy ELSE 0)

\* Mutant: the arguments of the lookup are swapped.
already_logged_today_Swapped(username, day) ==
    LET history == DictGet(USER_HISTORY, day, <<>>)
    IN  \E i \in DOMAIN history : history[i].date = username

\* Mutant: the comparison is negated.
already_logged_today_Negated(username, day) ==
    LET history == DictGet(USER_HISTORY, username, <<>>)
    IN  \E i \in DOMAIN history : history[i].date # day

already_logged_today(username, day) ==
    LET history == DictGet(USER_HISTORY, username, <<>>)
    IN  \E i \in DOMAIN history : history[i].date = day

\* Mutant: without its `global`, the history read is dropped.
load_data_NoHistory(files) ==
    IF files[DATA_FILE].exists
    THEN LET blob == json_loads(files[DATA_FILE].data)
         IN  IF blob.ok
             THEN [points  |-> IF blob.val.has_points THEN blob.val.points ELSE <<>>,
                   history |-> <<>>]
             ELSE EmptyLedger
    ELSE EmptyLedger

\* _load_data(): the ledger the process starts with, given the files on disk.
load_data(files) ==
    IF files[DATA_FILE].exists
    THEN LET blob == json_loads(files[DATA_FILE].data)
         IN  IF blob.ok
             THEN [points  |-> IF blob.val.has_points THEN blob.val.points ELSE <<>>,
                   history |-> IF blob.val.has_history THEN blob.val.history ELSE <<>>]
             ELSE EmptyLedger
    ELSE EmptyLedger

\* sorted(items, key=lambda x: x[1], reverse=True): stable, so an item goes
\* behind every item already placed whose points are not smaller.
\* Mutant: an item goes in front of the items with the same points.
SortInsert_Unstable(acc, x) ==
    LET n == Cardinality({j \in DOMAIN acc : acc[j][2] > x[2]})
    IN  SubSeq(acc, 1, n) \o <<x>> \o SubSeq(acc, n + 1, Len(acc))

SortInsert(acc, x) ==
    LET n == Cardinality({j \in DOMAIN acc : acc[j][2] >= x[2]})
    IN  SubSeq(acc, 1, n) \o <<x>> \o SubSeq(acc, n + 1, Len(acc))

RECURSIVE SortFrom(_, _, _)
SortFrom(items, i, acc) ==
    IF i > Len(items) THEN acc ELSE SortFrom(items, i + 1, SortInsert(acc, items[i]))

sorted_board == SortFrom(USER_POINTS, 1, <<>>)

\* sorted_board[:top]
SliceTo(s, top) ==
    IF top >= 0
    THEN SubSeq(s, 1, IF top < Len(s) THEN top ELSE Len(s))
    ELSE SubSeq(s, 1, IF Len(s) + top > 0 THEN Len(s) + top ELSE 0)

limited(top) == SliceTo(sorted_board, top)

\* ---------------------------------------------------------------- responses
HttpError(code, detail) == [NoResp EXCEPT !.status = code, !.message = detail]

RegisterResponse(message, usernames) ==
    [NoResp EXCEPT !.status = 201, !.message = message, !.usernames = usernames]

LogResponse(username, points, total, day) ==
    [NoResp EXCEPT !.status = 200, !.message = "Choices logged successfully!",
                   !.username = username, !.points_earned = points,
                   !.total_points = total, !.date = day]

\* What the handler returns once its save is through.
SuccessResponse(p) ==
    CASE req[p].op = "register" ->
           RegisterResponse("User registered successfully.", <<req[p].username>>)
      [] req[p].op = "batch" ->
           RegisterResponse(
             IF locals[p].created # <<>> THEN "Users registered successfully."
                                         ELSE "No new users created.",
             IF locals[p].created # <<>> THEN locals[p].created ELSE req[p].users)
      [] req[p].op = "log" ->
           LogResponse(req[p].username, locals[p].points,
                       DictGet(USER_POINTS, req[p].username, 0), locals[p].day)

\* ----------------------------------------------------------------- handlers
\* A request takes the first free slot; its handler starts when the event
\* loop is free.
CanStart(p) ==
    /\ pc[p] = "idle"
    /\ \A q \in Procs : q < p => pc[q] # "idle"
    /\ running = 0

RECURSIVE CountEntries(_)
CountEntries(d) ==
    IF d = <<>> THEN 0 ELSE Len(Head(d)[2]) + CountEntries(Tail(d))

\* Returned without saving: the response is ready to be sent.
Finish(p, request, response) ==
    /\ req' = [req EXCEPT ![p] = request]
    /\ resp' = [resp EXCEPT ![p] = response]
    /\ pc' = [pc EXCEPT ![p] = "done"]
    /\ running' = p
    /\ UNCHANGED <<USER_POINTS, USER_HISTORY, fs, data_lock, locals, clock,
                   nfail, ncrash, regOrder, origin, acked>>

\* Mutated the ledger and reached `await _save_data()`.
GoSave(p, request, loc) ==
    /\ req' = [req EXCEPT ![p] = request]
    /\ locals' = [locals EXCEPT ![p] = loc]
    /\ pc' = [pc EXCEPT ![p] = "await_save"]
    /\ running' = p
    /\ UNCHANGED <<fs, data_lock, resp, clock, nfail, ncrash, origin, acked>>

\* Mutant: `if USER_POINTS.get(username)`, which a total of zero fails.
AlreadyRegistered_Truthy(username) == DictGet(USER_POINTS, username, 0) > 0

AlreadyRegistered(username) == DictHas(USER_POINTS, username)

register_user(p, username) ==
    LET request == [NoReq EXCEPT !.op = "register", !.username = username]
    IN  /\ CanStart(p)
        /\ IF AlreadyRegistered(username)
           THEN Finish(p, request,
                       RegisterResponse("User already registered.", <<username>>))
           ELSE /\ USER_POINTS' = DictSet(USER_POINTS, username, 0)
                /\ USER_HISTORY' = DictSet(USER_HISTORY, username, <<>>)
                /\ regOrder' = Append(regOrder, username)
                /\ GoSave(p, request, NoLocals)

\* The loop of register_users_batch over payload.users, from index i on.
RECURSIVE BatchLoop(_, _, _)
BatchLoop(users, i, acc) ==
    IF i > Len(users) THEN acc
    ELSE IF ~DictHas(acc.points, users[i])
         THEN BatchLoop(users, i + 1,
                [points  |-> DictSet(acc.points, users[i], 0),
                 history |-> DictSet(acc.history, users[i], <<>>),
                 created |-> Append(acc.created, users[i])])
         ELSE BatchLoop(users, i + 1, acc)

register_users_batch(p, users) ==
    LET request == [NoReq EXCEPT !.op = "batch", !.users = users]
        out == BatchLoop(users, 1, [points |-> USER_POINTS,
                                    history |-> USER_HISTORY, created |-> <<>>])
    IN  /\ CanStart(p)
        /\ USER_POINTS' = out.points
        /\ USER_HISTORY' = out.history
        /\ regOrder' = regOrder \o out.created
        /\ GoSave(p, request, [NoLocals EXCEPT !.created = out.created])

\* Mutant: `if not USER_POINTS`, which only an empty ledger passes.
NotRegistered_Empty(username) == USER_POINTS = <<>>

NotRegistered(username) == ~DictHas(USER_POINTS, username)

\* Mutant: `=` in place of `+=`.
AddPoints_Assign(username, points) == DictSet(USER_POINTS, username, points)

\* USER_POINTS[choice.username] += points
AddPoints(username, points) ==
    DictSet(USER_POINTS, username, DictGet(USER_POINTS, username, 0) + points)

\* Mutant: the list is assigned, not appended to.
AppendEntry_Replace(username, entry) == DictSet(USER_HISTORY, username, <<entry>>)

\* USER_HISTORY.setdefault(choice.username, []).append(entry)
AppendEntry(username, entry) ==
    DictSet(USER_HISTORY, username,
            Append(DictGet(USER_HISTORY, username, <<>>), entry))

LogRequest(choice) ==
    [NoReq EXCEPT !.op = "log", !.username = choice.username,
                  !.recycled = choice.recycled,
                  !.biked_or_walked = choice.biked_or_walked,
                  !.saved_energy = choice.saved_energy]

NewEntry(choice, day) ==
    [date |-> day, recycled |-> choice.recycled,
     biked_or_walked |-> choice.biked_or_walked,
     saved_energy |-> choice.saved_energy,
     points_earned |-> calculate_points(choice)]

log_choice(p, choice) ==
    LET day    == today_str
        points == calculate_points(choice)
    IN  /\ CanStart(p)
        /\ IF NotRegistered(choice.username)
           THEN Finish(p, LogRequest(choice), HttpError(404, "User not registered."))
           ELSE IF already_logged_today(choice.username, day)
           THEN Finish(p, LogRequest(choice),
                       HttpError(409, "Choices for " \o day
                                        \o " already logged for user "
                                        \o choice.username \o "."))
           ELSE /\ CountEntries(USER_HISTORY) < MaxEntries
                /\ USER_POINTS' = AddPoints(choice.username, points)
                /\ USER_HISTORY' = AppendEntry(choice.username, NewEntry(choice, day))
                /\ UNCHANGED regOrder
                /\ GoSave(p, LogRequest(choice),
                          [NoLocals EXCEPT !.day = day, !.points = points])

\* GET /leaderboard/?top=N
leaderboard(p, top) ==
    /\ CanStart(p)
    /\ Finish(p, [NoReq EXCEPT !.op = "leaderboard", !.top = top],
              [NoResp EXCEPT !.status = 200, !.leaderboard = limited(top)])

\* Mutant: the membership test is left out, and the `get` defaults answer.
user_history_NoCheck(p, username) ==
    /\ CanStart(p)
    /\ Finish(p, [NoReq EXCEPT !.op = "history", !.username = username],
              [NoResp EXCEPT !.status = 200, !.username = username,
                      !.total_points = DictGet(USER_POINTS, username, 0),
                      !.history = DictGet(USER_HISTORY, username, <<>>)])

\* GET /history/{username}
user_history(p, username) ==
    /\ CanStart(p)
    /\ Finish(p, [NoReq EXCEPT !.op = "history", !.username = username],
              IF ~DictHas(USER_POINTS, username)
              THEN HttpError(404, "User not registered.")
              ELSE [NoResp EXCEPT !.status = 200, !.username = username,
                      !.total_points = DictGet(USER_POINTS, username, 0),
                      !.history = DictGet(USER_HISTORY, username, <<>>)])

\* -------------------------------------------------------------- _save_data
\* Mutant: the text is written by a worker thread that is awaited, and the
\* lock is not taken.
AcquireAndOpen_Unlocked(p) ==
    /\ pc[p] = "await_save"
    /\ running \in {0, p}
    /\ running' = 0
    /\ fs' = [fs EXCEPT ![TmpFile] = [exists |-> TRUE, data |-> <<>>]]
    /\ pc' = [pc EXCEPT ![p] = "writing"]
    /\ UNCHANGED <<USER_POINTS, USER_HISTORY, data_lock, req, locals, resp, clock,
                   nfail, ncrash, regOrder, origin, acked>>

\* `async with data_lock`: the coroutine goes on only once the lock is free.
\* tmp.write_text(...) then opens the temporary file for writing, which
\* truncates it.
AcquireAndOpen(p) ==
    /\ pc[p] = "await_save"
    /\ running \in {0, p}
    /\ data_lock = 0
    /\ data_lock' = p
    /\ running' = p
    /\ fs' = [fs EXCEPT ![TmpFile] = [exists |-> TRUE, data |-> <<>>]]
    /\ pc' = [pc EXCEPT ![p] = "writing"]
    /\ UNCHANGED <<USER_POINTS, USER_HISTORY, req, locals, resp, clock, nfail,
                   ncrash, regOrder, origin, acked>>

\* Mutant: the text is made from the snapshot last saved, not from the live
\* dicts.
SaveText_Stale == json_dumps(origin)

\* The text written: json.dumps of the payload, which holds the live dicts.
SaveText == json_dumps([points |-> USER_POINTS, history |-> USER_HISTORY])

\* Part of the text has reached the file.
WriteSome(p) ==
    /\ pc[p] = "writing"
    /\ fs[TmpFile].data = <<>>
    /\ fs' = [fs EXCEPT ![TmpFile] =
                [exists |-> TRUE, data |-> SubSeq(SaveText, 1, Len(SaveText) \div 2)]]
    /\ UNCHANGED <<USER_POINTS, USER_HISTORY, data_lock, running, pc, req, locals,
                   resp, clock, nfail, ncrash, regOrder, origin, acked>>

\* write_text returns: the whole text is in the temporary file.
WriteAll(p) ==
    /\ pc[p] = "writing"
    /\ fs' = [fs EXCEPT ![TmpFile] = [exists |-> TRUE, data |-> SaveText]]
    /\ pc' = [pc EXCEPT ![p] = "written"]
    /\ UNCHANGED <<USER_POINTS, USER_HISTORY, data_lock, running, req, locals,
                   resp, clock, nfail, ncrash, regOrder, origin, acked>>

\* Mutant: the rename is left out.
replace_Forgotten(files, src, dst) == files

\* tmp.replace(DATA_FILE): one rename.
replace(files, src, dst) == [files EXCEPT ![dst] = files[src], ![src] = Absent]

\* Out of `async with`: the lock is released and the handler ends with
\* `response`, which is ready to be sent.
Leave(p, response) ==
    /\ resp' = [resp EXCEPT ![p] = response]
    /\ pc' = [pc EXCEPT ![p] = "done"]
    /\ data_lock' = 0
    /\ UNCHANGED <<req, locals, running>>

\* The rename goes through and the handler returns.
ReplaceAndReturn(p) ==
    /\ pc[p] = "written"
    /\ fs' = replace(fs, TmpFile, DATA_FILE)
    /\ origin' = Ledger
    /\ acked' = IF req[p].op = "log"
                THEN [acked EXCEPT ![req[p].username] =
                        Append(@, NewEntry(req[p], locals[p].day))]
                ELSE acked
    /\ Leave(p, SuccessResponse(p))
    /\ UNCHANGED <<USER_POINTS, USER_HISTORY, clock, nfail, ncrash, regOrder>>

\* Mutant: the handler undoes its change when the save fails, by going back
\* to the snapshot last saved.
SaveFails_Rollback(p) ==
    /\ pc[p] \in {"writing", "written"}
    /\ nfail + ncrash < MaxFaults
    /\ nfail' = nfail + 1
    /\ USER_POINTS' = origin.points
    /\ USER_HISTORY' = origin.history
    /\ regOrder' = SelectSeq(regOrder, LAMBDA u : DictHas(origin.points, u))
    /\ Leave(p, HttpError(500, "Internal Server Error"))
    /\ UNCHANGED <<fs, clock, ncrash, origin, acked>>

\* Mutant: the exception is caught and the handler returns as if it had saved.
SaveFails_Swallowed(p) ==
    /\ pc[p] \in {"writing", "written"}
    /\ nfail + ncrash < MaxFaults
    /\ nfail' = nfail + 1
    /\ Leave(p, SuccessResponse(p))
    /\ UNCHANGED <<USER_POINTS, USER_HISTORY, fs, clock, ncrash, regOrder, origin, acked>>

\* write_text or replace raises OSError: the request ends with a 500.
SaveFails(p) ==
    /\ pc[p] \in {"writing", "written"}
    /\ nfail + ncrash < MaxFaults
    /\ nfail' = nfail + 1
    /\ Leave(p, HttpError(500, "Internal Server Error"))
    /\ UNCHANGED <<USER_POINTS, USER_HISTORY, fs, clock, ncrash, regOrder, origin, acked>>

\* The response is sent; the slot and the event loop are free again.
Respond(p) ==
    /\ pc[p] = "done"
    /\ pc' = [pc EXCEPT ![p] = "idle"]
    /\ req' = [req EXCEPT ![p] = NoReq]
    /\ resp' = [resp EXCEPT ![p] = NoResp]
    /\ locals' = [locals EXCEPT ![p] = NoLocals]
    /\ running' = 0
    /\ UNCHANGED <<USER_POINTS, USER_HISTORY, fs, data_lock, clock, nfail,
                   ncrash, regOrder, origin, acked>>

\* ------------------------------------------------------------- environment
Tick ==
    /\ clock < MaxDay
    /\ clock' = clock + 1
    /\ UNCHANGED <<USER_POINTS, USER_HISTORY, fs, data_lock, running, pc, req,
                   locals, resp, nfail, ncrash, regOrder, origin, acked>>

\* The process dies and is started again: every request in flight is gone,
\* the files stay as they are, and the module is imported afresh.
Crash ==
    LET loaded == load_data(fs)
    IN  /\ nfail + ncrash < MaxFaults
        /\ ncrash' = ncrash + 1
        /\ USER_POINTS' = loaded.points
        /\ USER_HISTORY' = loaded.history
        /\ regOrder' = SelectSeq(regOrder, LAMBDA u : DictHas(loaded.points, u))
        /\ data_lock' = 0
        /\ running' = 0
        /\ pc' = [p \in Procs |-> "idle"]
        /\ req' = [p \in Procs |-> NoReq]
        /\ locals' = [p \in Procs |-> NoLocals]
        /\ resp' = [p \in Procs |-> NoResp]
        /\ UNCHANGED <<fs, clock, nfail, origin, acked>>

\* A scheduler that switches tasks at `await _save_data()`.
Suspend(p) ==
    /\ pc[p] = "await_save"
    /\ running = p
    /\ running' = 0
    /\ UNCHANGED <<USER_POINTS, USER_HISTORY, fs, data_lock, pc, req, locals,
                   resp, clock, nfail, ncrash, regOrder, origin, acked>>

\* The flag combinations requests carry: none, one flag, two flags.
FlagSets == {<<FALSE, FALSE, FALSE>>, <<TRUE, FALSE, FALSE>>, <<FALSE, TRUE, TRUE>>}

Choice(username, flags) ==
    [username |-> username, recycled |-> flags[1],
     biked_or_walked |-> flags[2], saved_energy |-> flags[3]]

Choices == {Choice(u, f) : u \in UserNames, f \in FlagSets}

AllChoices == {Choice(u, f) : u \in UserNames, f \in BOOLEAN \X BOOLEAN \X BOOLEAN}

\* Values of the query parameter `top`.
Tops == -1 .. MaxUsers + 1

Next ==
    \/ \E p \in Procs, u \in UserNames : register_user(p, u)
    \/ \E p \in Procs, us \in Batches : register_users_batch(p, us)
    \/ \E p \in Procs, c \in Choices : log_choice(p, c)
    \/ \E p \in Procs, top \in Tops : leaderboard(p, top)
    \/ \E p \in Procs, u \in UserNames : user_history(p, u)
    \/ \E p \in Procs : AcquireAndOpen(p)
    \/ \E p \in Procs : WriteSome(p)
    \/ \E p \in Procs : WriteAll(p)
    \/ \E p \in Procs : ReplaceAndReturn(p)
    \/ \E p \in Procs : SaveFails(p)
    \/ \E p \in Procs : Respond(p)
    \/ Tick
    \/ Crash

\* The program as it runs: handlers one after the other, failing saves,
\* crashes and restarts.
Spec == Init /\ [][Next]_vars

\* The mutating handlers under a scheduler that may switch tasks at every
\* `await _save_data()`, with saves that go through.
NextYield ==
    \/ \E p \in Procs, u \in UserNames : register_user(p, u)
    \/ \E p \in Procs, us \in Batches : register_users_batch(p, us)
    \/ \E p \in Procs, c \in Choices : log_choice(p, c)
    \/ \E p \in Procs : AcquireAndOpen(p)
    \/ \E p \in Procs : WriteSome(p)
    \/ \E p \in Procs : WriteAll(p)
    \/ \E p \in Procs : ReplaceAndReturn(p)
    \/ \E p \in Procs : Respond(p)
    \/ \E p \in Procs : Suspend(p)
    \/ Tick

SpecYield == Init /\ [][NextYield]_vars

\* Registration and logging with every combination of the three flags, with
\* failing saves.
NextLog ==
    \/ \E p \in Procs, u \in UserNames : register_user(p, u)
    \/ \E p \in Procs, c \in AllChoices : log_choice(p, c)
    \/ \E p \in Procs : AcquireAndOpen(p)
    \/ \E p \in Procs : WriteSome(p)
    \/ \E p \in Procs : WriteAll(p)
    \/ \E p \in Procs : ReplaceAndReturn(p)
    \/ \E p \in Procs : SaveFails(p)
    \/ \E p \in Procs : Respond(p)
    \/ Tick

SpecLog == Init /\ [][NextLog]_vars

\* The scheduling of the event loop: a task that is ready is run (the queue
\* of ready tasks and the queue of the lock's waiters are first-in first-out,
\* so a waiter is not overtaken for ever), a write and a rename that do not
\* fail return, and a response that is ready is sent.
FairYield ==
    \A p \in Procs :
        /\ SF_vars(AcquireAndOpen(p))
        /\ WF_vars(WriteAll(p))
        /\ WF_vars(ReplaceAndReturn(p))
        /\ WF_vars(Respond(p))

\* The three handlers that save, within one day, under a scheduler that may
\* switch tasks at every `await _save_data()`.
NextLock ==
    \/ \E p \in Procs, u \in UserNames : register_user(p, u)
    \/ \E p \in Procs, us \in Batches : register_users_batch(p, us)
    \/ \E p \in Procs, c \in Choices : log_choice(p, c)
    \/ \E p \in Procs : AcquireAndOpen(p)
    \/ \E p \in Procs : WriteSome(p)
    \/ \E p \in Procs : WriteAll(p)
    \/ \E p \in Procs : ReplaceAndReturn(p)
    \/ \E p \in Procs : Respond(p)
    \/ \E p \in Procs : Suspend(p)

SpecLock == Init /\ [][NextLock]_vars /\ FairYield

\* ------------------------------------------------ start-up on a stored file
\* Dicts over the usernames, in every insertion order, with values from
\* `values`.
Dicts(values) ==
    {d \in UNION {[1..n -> UserNames \X values] : n \in 0..MaxUsers} :
        \A i, j \in DOMAIN d : i # j => d[i][1] # d[j][1]}

SampleEntry == NewEntry(Choice("", <<TRUE, FALSE, FALSE>>), "01-01-2026")

\* What DATA_FILE.read_text() may return at start-up: documents of the
\* persisted layout whose two members need not agree, documents with one
\* member left out, every truncation of these, and a document that is not an
\* object.
StoredTexts ==
    LET P == Dicts({0, POINTS.recycled})
        H == Dicts({<<>>, <<SampleEntry>>})
        full == {json_dumps([points |-> d, history |-> h]) : d \in P, h \in H}
        points_only == {<<LBrace, StrTok("points"), LBrace>> \o DumpPointItems(d)
                          \o <<RBrace, RBrace>> : d \in P}
        history_only == {<<LBrace, StrTok("history"), LBrace>> \o DumpHistoryItems(h)
                           \o <<RBrace, RBrace>> : h \in H}
        cut == {SubSeq(t, 1, n) : t \in full, n \in 0..3} \cup
               {SubSeq(t, 1, Len(t) - n) : t \in full, n \in 1..3}
    IN  full \cup points_only \cup history_only \cup cut \cup {<<LBracket, RBracket>>}

\* The module is about to be imported next to a data file somebody left.
InitLoad ==
    /\ USER_POINTS = <<>>
    /\ USER_HISTORY = <<>>
    /\ fs \in {[f \in Paths |-> IF f = DATA_FILE THEN x ELSE Absent] :
                 x \in {Absent} \cup {[exists |-> TRUE, data |-> t] : t \in StoredTexts}}
    /\ data_lock = 0
    /\ running = 0
    /\ pc = [p \in Procs |-> "import"]
    /\ req = [p \in Procs |-> NoReq]
    /\ locals = [p \in Procs |-> NoLocals]
    /\ resp = [p \in Procs |-> NoResp]
    /\ clock = 1
    /\ nfail = 0
    /\ ncrash = 0
    /\ regOrder = <<>>
    /\ origin = EmptyLedger
    /\ acked = [u \in UserNames |-> <<>>]

\* `_load_data()` at import; the server takes requests from then on.
Startup ==
    LET loaded == load_data(fs)
    IN  /\ \A p \in Procs : pc[p] = "import"
        /\ USER_POINTS' = loaded.points
        /\ USER_HISTORY' = loaded.history
        /\ regOrder' = [i \in DOMAIN loaded.points |-> loaded.points[i][1]]
        /\ pc' = [p \in Procs |-> "idle"]
        /\ UNCHANGED <<fs, data_lock, running, req, locals, resp, clock, nfail,
                       ncrash, origin, acked>>

NextLoad ==
    \/ Startup
    \/ \E p \in Procs, u \in UserNames : user_history(p, u)
    \/ \E p \in Procs : Respond(p)

\* Start-up on a stored file, and the history queries that show what was
\* loaded.
SpecLoad == InitLoad /\ [][NextLoad]_vars

\* ======================================================================
\*                               The claims
\* ======================================================================
RECURSIVE SumPoints(_)
SumPoints(h) ==
    IF h = <<>> THEN 0 ELSE Head(h).points_earned + SumPoints(Tail(h))

HistoryOf(u) == DictGet(USER_HISTORY, u, <<>>)
PointsOf(u)  == DictGet(USER_POINTS, u, 0)
Registered   == Keys(USER_POINTS)

\* C1: in every reachable state, each registered user's point total is the
\* sum of points_earned over that user's history entries, and every
\* registered user has a history.
C1_TotalIsSumOfEntries ==
    \A u \in Registered :
        /\ DictHas(USER_HISTORY, u)
        /\ PointsOf(u) = SumPoints(HistoryOf(u))

\* A ledger loaded from a saved file in which a user has two entries, and a
\* total that is their sum.
C1_Witness ==
    /\ ncrash = 1
    /\ \E u \in Registered :
         /\ Len(HistoryOf(u)) = 2
         /\ HistoryOf(u)[1].points_earned > 0
         /\ HistoryOf(u)[2].points_earned > 0
         /\ PointsOf(u) = 33

\* C2: in every reachable state, under every interleaving of handlers at their
\* await of the save, no user has two history entries with the same date, and
\* no two requests in flight have both logged the same user on the same day.
Logged(p) ==
    /\ req[p].op = "log"
    /\ \/ pc[p] \in {"await_save", "writing", "written"}
       \/ pc[p] = "done" /\ resp[p].status = 200

Weight(c) ==
    (IF c.recycled THEN 10 ELSE 0) + (IF c.biked_or_walked THEN 15 ELSE 0)
      + (IF c.saved_energy THEN 8 ELSE 0)

HasEntryOn(u, day) == \E i \in DOMAIN HistoryOf(u) : HistoryOf(u)[i].date = day

\* The request in slot p is a log_choice that was turned away neither as
\* unregistered nor as a duplicate, and its handler has ended.
LogEnded(p) ==
    pc[p] = "done" /\ req[p].op = "log" /\ resp[p].status \notin {404, 409}

\* C3 as stated: every log_choice for a registered user with no entry for the
\* day succeeds and reports the points of its flags and the new total.
C3_Original ==
    \A p \in Procs :
        LogEnded(p) =>
            /\ resp[p].status = 200
            /\ resp[p].points_earned = Weight(req[p])
            /\ resp[p].total_points = PointsOf(req[p].username)

\* The step of log_choice for a registered user with no entry for the day:
\* one entry worth Weight is appended, the total grows by Weight, nobody else
\* is touched, and the handler goes on to save.
C3_Step ==
    \A p \in Procs, c \in AllChoices :
        (log_choice(p, c) /\ c.username \in Registered
           /\ ~HasEntryOn(c.username, today_str))
        => /\ pc'[p] = "await_save"
           /\ HistoryOf(c.username)' =
                Append(HistoryOf(c.username),
                       [date |-> today_str, recycled |-> c.recycled,
                        biked_or_walked |-> c.biked_or_walked,
                        saved_energy |-> c.saved_energy,
                        points_earned |-> Weight(c)])
           /\ PointsOf(c.username)' = PointsOf(c.username) + Weight(c)
           /\ \A v \in UserNames \ {c.username} :
                  HistoryOf(v)' = HistoryOf(v) /\ PointsOf(v)' = PointsOf(v)
           /\ Keys(USER_POINTS') = Registered

\* How such a request ends: with a 200 that reports Weight and the new total,
\* or, when the save failed, with a 500 and the entry kept.
C3_End ==
    \A p \in Procs :
        LogEnded(p) =>
            LET u == req[p].username
                h == HistoryOf(u)
            IN  /\ h # <<>>
                /\ h[Len(h)].points_earned = Weight(req[p])
                /\ h[Len(h)].date = locals[p].day
                /\ PointsOf(u) = SumPoints(h)
                /\ \/ /\ resp[p].status = 200
                      /\ resp[p].points_earned = Weight(req[p])
                      /\ resp[p].total_points = PointsOf(u)
                      /\ resp[p].date = locals[p].day
                   \/ resp[p].status = 500

\* C3, amended: for every registered user with no entry for the current day
\* and every combination of the three flags, log_choice appends exactly one
\* entry whose points_earned is 10*recycled + 15*biked_or_walked +
\* 8*saved_energy and increases that user's total by exactly that amount; it
\* then reports that amount and the new total, unless its save fails, in
\* which case it ends with a server error and the entry stays.
C3_LogAddsWeight == [][C3_Step]_vars /\ []C3_End

\* A second entry, with all three flags set, reported on top of a first one.
C3_Witness ==
    \E p \in Procs :
        /\ LogEnded(p) /\ resp[p].status = 200
        /\ resp[p].points_earned = 33
        /\ resp[p].total_points = 43

\* C4: a log_choice for a registered user who already has an entry with the
\* current day's date ends with 409 whatever its flags are, and leaves the
\* points, the histories and the files as they were.
C4_Step ==
    \A p \in Procs, c \in Choices :
        (log_choice(p, c) /\ c.username \in Registered
           /\ HasEntryOn(c.username, today_str))
        => /\ pc'[p] = "done"
           /\ resp'[p].status = 409
           /\ UNCHANGED <<USER_POINTS, USER_HISTORY, fs>>

C4_DuplicateDayRejected == [][C4_Step]_vars

\* A user with points was turned down, next to another user with points.
C4_Witness ==
    \E p \in Procs :
        /\ pc[p] = "done" /\ req[p].op = "log" /\ resp[p].status = 409
        /\ PointsOf(req[p].username) > 0
        /\ \E v \in Registered \ {req[p].username} : PointsOf(v) > 0

\* C5: a log_choice for a username that is not registered ends with 404 and
\* leaves the points, the histories and the files as they were; the username
\* is still not registered.
C5_Step ==
    \A p \in Procs, c \in Choices :
        (log_choice(p, c) /\ c.username \notin Registered)
        => /\ pc'[p] = "done"
           /\ resp'[p].status = 404
           /\ UNCHANGED <<USER_POINTS, USER_HISTORY, fs>>
           /\ c.username \notin Keys(USER_POINTS')
           /\ ~DictHas(USER_HISTORY', c.username)

C5_UnregisteredRejected == [][C5_Step]_vars

\* An unknown user was turned away from a ledger that has users and a file.
C5_Witness ==
    \E p \in Procs :
        /\ pc[p] = "done" /\ req[p].op = "log" /\ resp[p].status = 404
        /\ Registered # {}
        /\ fs[DATA_FILE].exists

\* The batch in slot p named a user who was registered before the call.
Range(q) == {q[i] : i \in DOMAIN q}

RepeatsName(p) ==
    /\ req[p].op = "batch"
    /\ Range(req[p].users) \ Range(locals[p].created) # {}

\* C6 as stated: registering an already-registered username, alone or inside
\* a batch, never errors.
C6_Original ==
    \A p \in Procs :
        (pc[p] = "done"
           /\ (RepeatsName(p) \/ resp[p].message = "User already registered."))
        => resp[p].status \in {200, 201}

\* A single registration of a registered username answers "already
\* registered" and changes nothing.
C6_StepSingle ==
    \A p \in Procs, u \in UserNames :
        (register_user(p, u) /\ u \in Registered)
        => /\ pc'[p] = "done"
           /\ resp'[p].status = 201
           /\ resp'[p].message = "User already registered."
           /\ UNCHANGED <<USER_POINTS, USER_HISTORY, fs>>

\* A batch keeps every record it finds: the old dict is a prefix of the new
\* one, and the names it adds are new.
C6_StepBatch ==
    \A p \in Procs, us \in Batches :
        register_users_batch(p, us)
        => /\ SubSeq(USER_POINTS', 1, Len(USER_POINTS)) = USER_POINTS
           /\ SubSeq(USER_HISTORY', 1, Len(USER_HISTORY)) = USER_HISTORY
           /\ Keys(USER_POINTS') = Registered \cup Range(us)
           /\ Range(locals'[p].created) = Range(us) \ Registered

NoSecondRecord ==
    /\ \A i, j \in DOMAIN USER_POINTS : i # j => USER_POINTS[i][1] # USER_POINTS[j][1]
    /\ \A i, j \in DOMAIN USER_HISTORY : i # j => USER_HISTORY[i][1] # USER_HISTORY[j][1]

\* Only its save can make such a batch fail.
C6_End ==
    \A p \in Procs :
        (pc[p] = "done" /\ RepeatsName(p)) => resp[p].status \in {201, 500}

\* C6, amended: registering an already-registered username never creates a
\* second user record and leaves that user's points and history untouched;
\* alone it always answers "already registered", inside a batch the name is
\* skipped and the request fails only if its save fails (a batch saves even
\* when it created nobody).
C6_RegistrationIdempotent ==
    [][C6_StepSingle /\ C6_StepBatch]_vars /\ [](NoSecondRecord /\ C6_End)

\* A batch that named a user with points, next to a new one.
C6_Witness ==
    \E p \in Procs :
        /\ pc[p] = "done" /\ RepeatsName(p) /\ resp[p].status = 201
        /\ locals[p].created # <<>>
        /\ \E u \in Range(req[p].users) \ Range(locals[p].created) : PointsOf(u) > 0

\* C7: every leaderboard response lists users by points descending, users
\* with equal points in the order in which they registered; each item is a
\* registered user with the current total, and a `top` that covers the
\* population lists everybody.
RegIndex(u) == CHOOSE i \in DOMAIN regOrder : regOrder[i] = u

C7_LeaderboardOrder ==
    \A p \in Procs :
        (pc[p] = "done" /\ req[p].op = "leaderboard")
        => LET board == resp[p].leaderboard
           IN  /\ \A i, j \in DOMAIN board :
                     i < j => \/ board[i][2] > board[j][2]
                              \/ /\ board[i][2] = board[j][2]
                                 /\ RegIndex(board[i][1]) < RegIndex(board[j][1])
               /\ \A i \in DOMAIN board :
                     /\ board[i][1] \in Registered
                     /\ board[i][2] = PointsOf(board[i][1])
               /\ req[p].top >= Len(USER_POINTS) => Len(board) = Len(USER_POINTS)

\* Two users with the same points, listed in registration order, which is
\* not the alphabetical one.
C7_Witness ==
    \E p \in Procs :
        /\ pc[p] = "done" /\ req[p].op = "leaderboard"
        /\ resp[p].leaderboard = << <<"bob", 10>>, <<"alice", 10>> >>

\* C8: for every reachable ledger, the file a save writes from it loads back
\* to the same points and the same history, users and entries in the same
\* order; and a restart finds the ledger the data file was saved from.
C8_SaveThenLoad ==
    load_data([fs EXCEPT ![DATA_FILE] = [exists |-> TRUE, data |-> SaveText]]) = Ledger

C8_Restart ==
    (Crash /\ fs[DATA_FILE].exists)
    => [points |-> USER_POINTS', history |-> USER_HISTORY'] = origin

C8_RoundTrip == []C8_SaveThenLoad /\ [][C8_Restart]_vars

\* A restart has loaded two users, the second one in the alphabet first, one
\* of them with two entries.
C8_Witness ==
    /\ ncrash = 1
    /\ Ledger = origin
    /\ Len(USER_POINTS) = 2
    /\ USER_POINTS[1][1] = "bob"
    /\ \E u \in Registered : Len(HistoryOf(u)) = 2

\* C9: whenever a handler that changed the ledger has produced a success
\* response, the data file is a complete snapshot that holds that change, and
\* a crash at that point restarts with the change.
Changed(p) ==
    /\ pc[p] = "done"
    /\ resp[p].status \in {200, 201}
    /\ \/ req[p].op = "register" /\ resp[p].message = "User registered successfully."
       \/ req[p].op = "batch" /\ locals[p].created # <<>>
       \/ req[p].op = "log"

\* The ledger (points, history) holds the change request p made.
Holds(p, points, history) ==
    CASE req[p].op = "register" ->
           DictHas(points, req[p].username) /\ DictHas(history, req[p].username)
      [] req[p].op = "batch" ->
           \A u \in Range(locals[p].created) : DictHas(points, u) /\ DictHas(history, u)
      [] req[p].op = "log" ->
           /\ DictGet(points, req[p].username, 0) = resp[p].total_points
           /\ \E i \in DOMAIN DictGet(history, req[p].username, <<>>) :
                DictGet(history, req[p].username, <<>>)[i] =
                    [date |-> resp[p].date, recycled |-> req[p].recycled,
                     biked_or_walked |-> req[p].biked_or_walked,
                     saved_energy |-> req[p].saved_energy,
                     points_earned |-> resp[p].points_earned]

C9_InFile ==
    \A p \in Procs :
        Changed(p)
        => LET blob == json_loads(fs[DATA_FILE].data)
           IN  /\ fs[DATA_FILE].exists
               /\ blob.ok /\ blob.val.has_points /\ blob.val.has_history
               /\ Holds(p, blob.val.points, blob.val.history)

C9_CrashKeeps ==
    Crash => \A p \in Procs : Changed(p) => Holds(p, USER_POINTS', USER_HISTORY')

C9_SavedBeforeResponse == []C9_InFile /\ [][C9_CrashKeeps]_vars

\* A second entry was saved and reported after the save of the first one had
\* failed.
C9_Witness ==
    \E p \in Procs :
        /\ Changed(p) /\ req[p].op = "log"
        /\ resp[p].total_points = 33
        /\ nfail = 1

\* C10: at every moment the data file is absent or holds the complete text of
\* a snapshot of the ledger as it was at some moment (the one of the rename),
\* which loads without error.
C10_DataFileComplete ==
    fs[DATA_FILE].exists
    => /\ fs[DATA_FILE].data = json_dumps(origin)
       /\ json_loads(fs[DATA_FILE].data).ok

\* After a crash in the middle of a save: the temporary file holds half a
\* text, the data file the snapshot before it.
C10_Witness ==
    /\ ncrash = 1
    /\ fs[DATA_FILE].exists
    /\ fs[TmpFile].exists
    /\ fs[TmpFile].data # <<>>
    /\ ~json_loads(fs[TmpFile].data).ok

\* The module has been imported.
Loaded == \A p \in Procs : pc[p] # "import"

\* The data file decodes to an object with both members, which name the same
\* users.
StoredBlob == json_loads(fs[DATA_FILE].data)

WellFormed ==
    /\ StoredBlob.ok
    /\ StoredBlob.val.has_points
    /\ StoredBlob.val.has_history
    /\ Keys(StoredBlob.val.points) = Keys(StoredBlob.val.history)

\* C11: whenever the data file found at start-up does not parse or lacks the
\* expected structure (a member is missing, or the two members disagree on
\* the set of users), the ledger after the load has no users and no history.
C11_Original ==
    (Loaded /\ fs[DATA_FILE].exists /\ ~WellFormed) => Ledger = EmptyLedger

\* A save has failed in this step.
SaveFailed == nfail' = nfail + 1

\* The step in which a save fails: the request that was saving ends with a
\* 500, the lock it held is free, and nothing is written.
C12_Fails ==
    SaveFailed
    => \E p \in Procs :
          /\ pc[p] \in {"writing", "written"} /\ data_lock = p
          /\ req[p].op \in {"register", "batch", "log"}
          /\ pc'[p] = "done"
          /\ resp'[p].status = 500
          /\ data_lock' = 0
          /\ fs' = fs

\* One attempt per request: a handler starts to write only from its await of
\* the save, reaches that await only when its request comes in, and once it
\* has an answer only sends it.
C12_OneAttempt ==
    \A p \in Procs :
        /\ (pc'[p] = "writing" /\ pc[p] # "writing") => pc[p] = "await_save"
        /\ (pc'[p] = "await_save" /\ pc[p] # "await_save") => pc[p] = "idle"
        /\ pc[p] = "done" => /\ pc'[p] \in {"done", "idle"}
                             /\ pc'[p] = "done" => resp'[p] = resp[p]

\* The lock is held only by a request that is writing.
C12_LockFree ==
    /\ data_lock # 0 => pc[data_lock] \in {"writing", "written"}
    /\ \A p \in Procs : pc[p] \in {"writing", "written"} => data_lock = p

\* C12: when the write of the temporary file or its rename fails during
\* register, batch-register or log_choice, the request ends with a 500 and
\* not with a success response, it has made one save attempt and makes no
\* other, and the lock is released, so that later saves go on.
C12_FailedSaveSurfaces == [][C12_Fails /\ C12_OneAttempt]_vars /\ []C12_LockFree

\* After a failed save, a later request holds the lock and is writing.
C12_Witness ==
    /\ nfail = 1
    /\ \E q \in Procs : pc[q] = "written" /\ data_lock = q /\ req[q].op = "log"

\* The batch registration in slot p has returned.
BatchReturned(p) == pc[p] = "done" /\ req[p].op = "batch" /\ resp[p].status = 201

\* C13: the usernames in the response of a batch registration are exactly
\* those that were not registered before the call, each once, in the order of
\* the payload; when none is new the response says so and names nobody.
C13_Original ==
    \A p \in Procs :
        BatchReturned(p)
        => /\ resp[p].usernames = locals[p].created
           /\ \A i, j \in DOMAIN resp[p].usernames :
                  i # j => resp[p].usernames[i] # resp[p].usernames[j]
           /\ locals[p].created = <<>> => resp[p].message = "No new users created."

\* C14: POST /register/ answers 201 when it creates the user, and 200 with
\* the message "User already registered." when the username exists.
C14_Original ==
    \A p \in Procs :
        (pc[p] = "done" /\ req[p].op = "register")
        => \/ /\ resp[p].status = 201
              /\ resp[p].message = "User registered successfully."
           \/ /\ resp[p].status = 200
              /\ resp[p].message = "User already registered."
           \/ resp[p].status = 500

\* a is b with some elements left out.
RECURSIVE IsSubseq(_, _)
IsSubseq(a, b) ==
    IF a = <<>> THEN TRUE
    ELSE IF b = <<>> THEN FALSE
    ELSE IF Head(a) = Head(b) THEN IsSubseq(Tail(a), Tail(b))
    ELSE IsSubseq(a, Tail(b))

HistoryEnded(p) == pc[p] = "done" /\ req[p].op = "history"

\* C15 as stated: history(username) returns the current total and exactly
\* the entries of the log_choice calls that returned success, in their order;
\* for an unknown username it fails with NotRegistered.
C15_Original ==
    \A p \in Procs :
        HistoryEnded(p)
        => IF req[p].username \in Registered
           THEN /\ resp[p].status = 200
                /\ resp[p].total_points = PointsOf(req[p].username)
                /\ resp[p].history = acked[req[p].username]
           ELSE resp[p].status = 404

\* The query answers with what the ledger holds, and changes nothing.
C15_Step ==
    \A p \in Procs, u \in UserNames :
        user_history(p, u)
        => /\ pc'[p] = "done"
           /\ IF u \in Registered
              THEN /\ resp'[p].status = 200
                   /\ resp'[p].username = u
                   /\ resp'[p].total_points = PointsOf(u)
                   /\ resp'[p].history = HistoryOf(u)
              ELSE resp'[p].status = 404
           /\ UNCHANGED <<USER_POINTS, USER_HISTORY, fs>>

\* What an answer holds: the entries of the calls that returned success, in
\* their order, among entries with distinct dates whose points add up to the
\* total.
C15_Answer ==
    \A p \in Procs :
        (HistoryEnded(p) /\ resp[p].status = 200)
        => LET h == resp[p].history
           IN  /\ IsSubseq(acked[req[p].username], h)
               /\ resp[p].total_points = SumPoints(h)
               /\ \A i, j \in DOMAIN h : i # j => h[i].date # h[j].date

\* C15, amended: history(username) returns the user's current total and the
\* user's current history, which holds in logging order every entry of a
\* log_choice call that returned success and also the entries of calls whose
\* save failed; the total is the sum of the points of the entries returned;
\* for an unknown username it fails with NotRegistered.
C15_HistoryIsLedger == [][C15_Step]_vars /\ []C15_Answer

\* Two entries and a total of 33 are returned, of which only one entry comes
\* from a call that returned success: the save of the other call failed.
C15_Witness ==
    \E p \in Procs :
        /\ HistoryEnded(p) /\ resp[p].status = 200
        /\ Len(resp[p].history) = 2
        /\ resp[p].total_points = 33
        /\ Len(acked[req[p].username]) = 1

\* The first n items of a sequence; none when n is zero or negative, all when
\* n is its length or more.
FirstN(q, n) ==
    SubSeq(q, 1, IF n < 0 THEN 0 ELSE IF n > Len(q) THEN Len(q) ELSE n)

\* C16: for every integer `top` the endpoint accepts, zero and negative
\* values included, the leaderboard is the first `top` items of the full
\* ranking and never has more than `top` items (none, then, for a `top` of
\* zero or less); a `top` of at least the number of users returns them all.
C16_Original ==
    \A p \in Procs :
        (pc[p] = "done" /\ req[p].op = "leaderboard")
        => /\ resp[p].leaderboard = FirstN(sorted_board, req[p].top)
           /\ Len(resp[p].leaderboard) <= (IF req[p].top < 0 THEN 0 ELSE req[p].top)
           /\ req[p].top >= Len(USER_POINTS)
                => Len(resp[p].leaderboard) = Len(USER_POINTS)

\* a is the beginning of b.
IsPrefix(a, b) == Len(a) <= Len(b) /\ SubSeq(b, 1, Len(a)) = a

\* A step of one execution: the process is not started again in it.
SameExecution == ncrash' = ncrash

\* C17: across every step of an execution, a registered user stays
\* registered and keeps a history mapping, each user's history keeps its
\* entries as they are and in their order and only gets entries appended,
\* and no user's total decreases.
C17_Step ==
    SameExecution
    => \A u \in UserNames :
          /\ u \in Registered => u \in Keys(USER_POINTS')
          /\ DictHas(USER_HISTORY, u) => DictHas(USER_HISTORY', u)
          /\ IsPrefix(HistoryOf(u), HistoryOf(u)')
          /\ PointsOf(u)' >= PointsOf(u)

C17_LedgerOnlyGrows == [][C17_Step]_vars

\* A second entry has just been appended to a user's history, next to
\* another registered user.
C17_Witness ==
    \E p \in Procs :
        /\ pc[p] = "await_save" /\ req[p].op = "log"
        /\ Len(HistoryOf(req[p].username)) = 2
        /\ PointsOf(req[p].username) > HistoryOf(req[p].username)[1].points_earned
        /\ Cardinality(Registered) = 2

Saving == {p \in Procs : pc[p] \in {"writing", "written"}}

\* At most one request is between opening the temporary file and renaming
\* it; it holds the lock, and the temporary file holds the beginning of its
\* text and nothing of another save.
C18_OneWriter ==
    /\ Cardinality(Saving) <= 1
    /\ \A p \in Saving :
          /\ data_lock = p
          /\ fs[TmpFile].exists
          /\ IsPrefix(fs[TmpFile].data, SaveText)
          /\ pc[p] = "written" => fs[TmpFile].data = SaveText
    /\ data_lock # 0 => data_lock \in Saving

\* A request that waits at its save gets the lock.
C18_Acquires ==
    \A p \in Procs : (pc[p] = "await_save") ~> (pc[p] = "writing" /\ data_lock = p)

\* C18: at most one request at a time is between writing the temporary file
\* and renaming it over the data file, so the writes of two saves never
\* interleave; and every request that waits for the lock eventually has it.
C18_SavesSerialize == []C18_OneWriter /\ C18_Acquires

\* One request is writing under the lock while another one, suspended at its
\* save, waits.
C18_Witness ==
    \E p, q \in Procs :
        /\ p # q
        /\ pc[p] = "writing" /\ data_lock = p /\ fs[TmpFile].data # <<>>
        /\ pc[q] = "await_save"

\* No request is between its change of the ledger and the end of its save.
Quiescent == \A p \in Procs : pc[p] \in {"idle", "done"}

\* Once all requests have completed, the data file is the text of the ledger
\* in memory.
C19_FileIsLedger ==
    Quiescent
    => IF fs[DATA_FILE].exists
       THEN fs[DATA_FILE].data = json_dumps(Ledger) /\ load_data(fs) = Ledger
       ELSE Ledger = EmptyLedger

\* A rename puts the ledger of that moment in place, which holds every user
\* and every entry of the file it replaces.
C19_Rename ==
    fs'[DATA_FILE] # fs[DATA_FILE]
    => LET old == load_data(fs)
           new == load_data(fs')
       IN  /\ new = [points |-> USER_POINTS', history |-> USER_HISTORY']
           /\ Keys(old.points) \subseteq Keys(new.points)
           /\ \A u \in UserNames :
                 /\ IsPrefix(DictGet(old.history, u, <<>>), DictGet(new.history, u, <<>>))
                 /\ DictGet(old.points, u, 0) <= DictGet(new.points, u, 0)

\* C19: when mutating requests overlap at their saves and every save goes
\* through, a save that takes the lock later never puts an older ledger in
\* place than a save before it, and once all requests have completed the
\* data file holds the ledger that is in memory.
C19_NoStaleOverwrite == []C19_FileIsLedger /\ [][C19_Rename]_vars

\* A request that changed the ledger first and was suspended at its save is
\* about to rename, after a later request has saved: its text has the later
\* request's entry too.
C19_Witness ==
    \E p \in Procs :
        /\ pc[p] = "written" /\ req[p].op = "register"
        /\ fs[DATA_FILE].exists
        /\ fs[DATA_FILE].data = fs[TmpFile].data
        /\ \E u \in Registered : Len(HistoryOf(u)) = 1 /\ Len(acked[u]) = 1
        /\ HistoryOf(req[p].username) = <<>>
        /\ \A q \in Procs : q # p => pc[q] = "idle"

\* The save of the request in slot p has failed.
Failed(p) == pc[p] = "done" /\ resp[p].status = 500

\* The entry the log_choice in slot p made.
EntryOf(p) == NewEntry(req[p], locals[p].day)

\* The step in which a save fails leaves the ledger and the data file alone.
C20_Fails == SaveFailed => UNCHANGED <<USER_POINTS, USER_HISTORY>> /\ fs'[DATA_FILE] = fs[DATA_FILE]

\* After a failed save the change is in memory and not in the data file,
\* which is absent or holds the snapshot before it.
C20_Kept ==
    \A p \in Procs :
        Failed(p)
        => /\ req[p].op \in {"register", "batch", "log"}
           /\ fs[DATA_FILE].exists => fs[DATA_FILE].data = json_dumps(origin)
           /\ req[p].op = "register"
                => /\ req[p].username \in Registered
                   /\ DictHas(USER_HISTORY, req[p].username)
                   /\ ~DictHas(load_data(fs).points, req[p].username)
           /\ req[p].op = "batch"
                => \A u \in Range(locals[p].created) :
                      u \in Registered /\ ~DictHas(load_data(fs).points, u)
           /\ req[p].op = "log"
                => LET u == req[p].username
                       h == HistoryOf(u)
                       saved == DictGet(load_data(fs).history, u, <<>>)
                   IN  /\ h # <<>> /\ h[Len(h)] = EntryOf(p)
                       /\ PointsOf(u) = SumPoints(h)
                       /\ \A i \in DOMAIN saved : saved[i].date # locals[p].day
                       /\ \A i \in DOMAIN acked[u] : acked[u][i].date # locals[p].day

\* The user has an entry for today that no call returned with success.
UnackedToday(u) ==
    /\ HasEntryOn(u, today_str)
    /\ \A i \in DOMAIN acked[u] : acked[u][i].date # today_str

\* A repeat of the log_choice on the same day is turned down as a duplicate.
C20_Repeat ==
    \A p \in Procs, c \in Choices :
        (log_choice(p, c) /\ UnackedToday(c.username))
        => /\ resp'[p].status = 409
           /\ UNCHANGED <<USER_POINTS, USER_HISTORY, fs>>

\* C20: when the save fails inside register, batch-register or log_choice,
\* the caller gets an error and the change the call made stays in memory
\* (the user stays registered; the entry and its points stay in the ledger)
\* while the data file still holds the snapshot before it, so a repeat of the
\* same log_choice on the same day is rejected with DuplicateDayEntry.
C20_FailedSaveKeepsMemory == [][C20_Fails /\ C20_Repeat]_vars /\ []C20_Kept

\* The repeat of a log_choice whose save failed has been turned down: the
\* entry is in memory, not in the data file.
C20_Witness ==
    \E p \in Procs :
        /\ pc[p] = "done" /\ req[p].op = "log" /\ resp[p].status = 409
        /\ nfail = 1 /\ ncrash = 0
        /\ UnackedToday(req[p].username)
        /\ PointsOf(req[p].username) > 0
        /\ fs[DATA_FILE].exists
        /\ DictGet(load_data(fs).history, req[p].username, <<>>) = <<>>
====
